---- MODULE Spec2Model ----
(***************************************************************************)
(* Model of src/bin/overlay/main.go: the overlay tool reads a JSON list of *)
(* overlays and a PDF, and for every overlay stamps an optional white      *)
(* rectangle and then a text onto the in-memory PDF, writing the result    *)
(* once at the end.  Every error is fatal (log.Fatalf).                    *)
(*                                                                         *)
(* Numbers of the JSON input (float64 in the code) are represented as      *)
(* integer multiples of one half: the value 3 stands for 1.5.  IntOf is    *)
(* Go's int(float64) conversion on that representation.                    *)
(***************************************************************************)
EXTENDS Integers, Sequences, FiniteSets, TLC

VARIABLES
    jsonPath,      \* -json flag ("" when missing)
    pdfPath,       \* -pdf flag ("" when missing)
    pc,            \* position of main
    data,          \* bytes read from the JSON file
    overlays,      \* []OverlayRectText decoded from data
    originalPDF,   \* bytes read from the PDF file
    currentPDF,    \* the accumulator buffer
    iter,          \* number of loop iterations begun
    i,             \* index of the overlay being processed (0-based)
    whitePNGData,  \* data URI returned by createWhitePNG
    whitePNGPath,  \* name returned by saveDataURIToTempFile
    wm,            \* watermark description parsed for the next call
    outBuf,        \* output buffer of the last AddWatermarks call
    tmpFiles,      \* files in the temporary directory
    tmpSeq,        \* number of temporary files ever created
    pngCalls,      \* history: calls of createWhitePNG
    saveCalls,     \* history: calls of saveDataURIToTempFile
    wmCalls,       \* history: calls of api.AddWatermarks
    errs,          \* history: errors returned to main
    filesRead,     \* history: paths read with ioutil.ReadFile
    logOut,        \* standard error: lines written by package log
    stdout,        \* standard output
    outFile,       \* content of the output path
    outWrites,     \* number of os.WriteFile calls on the output path
    exitCode       \* -1 while running, else the exit status

vars == <<jsonPath, pdfPath, pc, data, overlays, originalPDF, currentPDF, iter, i,
          whitePNGData, whitePNGPath, wm, outBuf, tmpFiles, tmpSeq, pngCalls,
          saveCalls, wmCalls, errs, filesRead, logOut, stdout, outFile, outWrites,
          exitCode>>

\* ---------------------------------------------------------------- bounds
MaxOverlays == 2

\* Values a width or height field of the JSON input holds, in halves: -0.5,
\* 0.5, 1, 1.5.  The value 0 enters as the decoding of a missing field (an
\* explicit 0 decodes to the same overlay).
Dims == {-1, 1, 2, 3}
PDFs == {"pdfA", "pdfB"}

\* ---------------------------------------------------------------- values
\* a log line that names no overlay index
NoIdx == -1
Nil == [base |-> "nil", layers |-> <<>>]
NoFile == [base |-> "no file", layers |-> <<>>]
Partial == [base |-> "partial", layers |-> <<>>]
NoURI == [prefix |-> "", W |-> 0, H |-> 0, pix |-> <<>>]
NoWM == [kind |-> "none", ov |-> 0, file |-> 0]
PNGPrefix == "data:image/png;base64,"

Seqs(S, n) == UNION {[1..k -> S] : k \in 0..n}

\* The JSON documents of the input file: an array of objects whose width and
\* height are numbers or missing, or text that is no JSON.
JSONObjects == UNION {[D -> Dims] : D \in SUBSET {"width", "height"}}
NotJSON == [valid |-> FALSE, doc |-> <<>>]
JSONInputs == {NotJSON} \cup {[valid |-> TRUE, doc |-> d] : d \in Seqs(JSONObjects, MaxOverlays)}

\* A missing numeric field decodes to the zero value.
Field(o, name) == IF name \in DOMAIN o THEN o[name] ELSE 0
Unmarshal(d) ==
    [k \in 1..Len(d.doc) |-> [Width |-> Field(d.doc[k], "width"), Height |-> Field(d.doc[k], "height")]]

\* int(x) of a float64 x: truncation toward zero (x in halves)
IntOf(x) == IF x >= 0 THEN x \div 2 ELSE -((-x) \div 2)

\* faulty variants of the rectangle test: || for &&, and a threshold of 1 for 0
RectRequestedEither(ov) == ov.Width > 0 \/ ov.Height > 0
RectRequestedAboveOne(ov) == ov.Width > 2 /\ ov.Height > 2

\* if ov.Width > 0 && ov.Height > 0
RectRequested(ov) == ov.Width > 0 /\ ov.Height > 0

\* faulty variant: the loop walks the array from its end
RangeOrderReversed(n) == [k \in 1..n |-> n - k]

\* The indices a range loop over n elements visits, in order.
RangeOrder(n) == [k \in 1..n |-> k - 1]

\* createWhitePNG: a w x h image with every pixel set to white; png.Encode
\* rejects an image with no pixels.
WhiteImage(w, h) == [p \in (0..(w - 1)) \X (0..(h - 1)) |-> "white"]
createWhitePNG(w, h) ==
    IF w <= 0 \/ h <= 0
    THEN [ok |-> FALSE, uri |-> NoURI]
    ELSE [ok |-> TRUE, uri |-> [prefix |-> PNGPrefix, W |-> w, H |-> h, pix |-> WhiteImage(w, h)]]

\* api.AddWatermarks on success: the input document with one more layer on
\* every page.
AddWatermarks(buf, w) == [buf EXCEPT !.layers = Append(@, w)]

\* faulty variant: the accumulator is not initialised from the file's bytes
InitialBufferNil(orig) == Nil

\* currentPDF := originalPDF
InitialBuffer(orig) == orig

\* faulty variant: the output of a watermark call is dropped
UpdatedKeepsCurrent(cur, out) == cur

\* currentPDF = updated
Updated(cur, out) == out

\* faulty variant: the progress line does not name the overlay
ProgressLineNoIndex(idx) == [level |-> "info", msg |-> "Processing overlay", idx |-> NoIdx]

\* log.Printf("Processing overlay %d: ...", i, ...)
ProgressLine(idx) == [level |-> "info", msg |-> "Processing overlay", idx |-> idx]

\* faulty variant: the temporary file is removed when the function returns
TempDirAfterRemoved(files, f) == files

\* os.CreateTemp and the deferred Close: the file stays in the temporary
\* directory whether or not the write succeeded.
TempDirAfter(files, f) == files \cup {f}

\* faulty variant: the error is logged with log.Printf and the run goes on to write
\* what it has
FatalfContinues(msg, idx) ==
    /\ logOut' = Append(logOut, [level |-> "fatal", msg |-> msg, idx |-> idx])
    /\ exitCode' = exitCode
    /\ pc' = "write"

\* log.Fatalf: one line on standard error, then os.Exit(1)
Fatalf(msg, idx) ==
    /\ logOut' = Append(logOut, [level |-> "fatal", msg |-> msg, idx |-> idx])
    /\ exitCode' = 1
    /\ pc' = "exited"

\* an error value returned to main at step `step`
Err(step) == errs' = Append(errs, [step |-> step, ov |-> i])

Init ==
    /\ jsonPath \in {"", "overlays.json"}
    /\ pdfPath \in {"", "original.pdf"}
    /\ pc = "flags"
    /\ data = NotJSON
    /\ overlays = <<>>
    /\ originalPDF = Nil
    /\ currentPDF = Nil
    /\ iter = 0
    /\ i = 0
    /\ whitePNGData = NoURI
    /\ whitePNGPath = 0
    /\ wm = NoWM
    /\ outBuf = Nil
    /\ tmpFiles = {}
    /\ tmpSeq = 0
    /\ pngCalls = <<>>
    /\ saveCalls = <<>>
    /\ wmCalls = <<>>
    /\ errs = <<>>
    /\ filesRead = {}
    /\ logOut = <<>>
    /\ stdout = <<>>
    /\ outFile = NoFile
    /\ outWrites = 0
    /\ exitCode = -1

\* ---------------------------------------------------------------- main
\* faulty variant: && for ||
FlagsMissingBoth(j, p) == j = "" /\ p = ""

\* if *jsonPath == "" || *pdfPath == ""
FlagsMissing(j, p) == j = "" \/ p = ""

\* lines 91-94
CheckFlags ==
    /\ pc = "flags"
    /\ IF FlagsMissing(jsonPath, pdfPath)
       THEN /\ stdout' = Append(stdout, "usage")
            /\ exitCode' = 1
            /\ pc' = "exited"
       ELSE /\ pc' = "readJSON"
            /\ UNCHANGED <<stdout, exitCode>>
    /\ UNCHANGED <<jsonPath, pdfPath, data, overlays, originalPDF, currentPDF, iter, i,
                   whitePNGData, whitePNGPath, wm, outBuf, tmpFiles, tmpSeq, pngCalls,
                   saveCalls, wmCalls, errs, filesRead, logOut, outFile, outWrites>>

\* lines 97-100
ReadJSON ==
    /\ pc = "readJSON"
    /\ filesRead' = filesRead \cup {jsonPath}
    /\ \/ /\ \E d \in JSONInputs : data' = d
          /\ pc' = "unmarshal"
          /\ UNCHANGED <<errs, logOut, exitCode>>
       \/ /\ Err("read json")
          /\ Fatalf("Could not read JSON file", NoIdx)
          /\ UNCHANGED data
    /\ UNCHANGED <<jsonPath, pdfPath, overlays, originalPDF, currentPDF, iter, i,
                   whitePNGData, whitePNGPath, wm, outBuf, tmpFiles, tmpSeq, pngCalls,
                   saveCalls, wmCalls, stdout, outFile, outWrites>>

\* lines 101-104
DecodeJSON ==
    /\ pc = "unmarshal"
    /\ IF ~data.valid
       THEN /\ Err("decode json")
            /\ Fatalf("JSON parse error", NoIdx)
            /\ UNCHANGED overlays
       ELSE /\ overlays' = Unmarshal(data)
            /\ pc' = "readPDF"
            /\ UNCHANGED <<errs, logOut, exitCode>>
    /\ UNCHANGED <<jsonPath, pdfPath, data, originalPDF, currentPDF, iter, i,
                   whitePNGData, whitePNGPath, wm, outBuf, tmpFiles, tmpSeq, pngCalls,
                   saveCalls, wmCalls, filesRead, stdout, outFile, outWrites>>

\* lines 107-113
ReadPDF ==
    /\ pc = "readPDF"
    /\ filesRead' = filesRead \cup {pdfPath}
    /\ \/ /\ \E p \in PDFs :
               /\ originalPDF' = [base |-> p, layers |-> <<>>]
               /\ currentPDF' = InitialBuffer(originalPDF')
          /\ pc' = "loop"
          /\ UNCHANGED <<errs, logOut, exitCode>>
       \/ /\ Err("read pdf")
          /\ Fatalf("Could not read PDF file", NoIdx)
          /\ UNCHANGED <<originalPDF, currentPDF>>
    /\ UNCHANGED <<jsonPath, pdfPath, data, overlays, iter, i,
                   whitePNGData, whitePNGPath, wm, outBuf, tmpFiles, tmpSeq, pngCalls,
                   saveCalls, wmCalls, stdout, outFile, outWrites>>

\* lines 115-122: the loop head, the progress line and the rectangle test
LoopHead ==
    /\ pc = "loop"
    /\ IF iter < Len(overlays)
       THEN /\ iter' = iter + 1
            /\ i' = RangeOrder(Len(overlays))[iter + 1]
            /\ logOut' = Append(logOut, ProgressLine(i'))
            /\ pc' = IF RectRequested(overlays[i' + 1]) THEN "png" ELSE "textParse"
       ELSE /\ pc' = "write"
            /\ UNCHANGED <<iter, i, logOut>>
    /\ UNCHANGED <<jsonPath, pdfPath, data, overlays, originalPDF, currentPDF,
                   whitePNGData, whitePNGPath, wm, outBuf, tmpFiles, tmpSeq, pngCalls,
                   saveCalls, wmCalls, errs, filesRead, stdout, outFile, outWrites, exitCode>>

\* lines 125-130
CreatePNG ==
    /\ pc = "png"
    /\ LET wInt == IntOf(overlays[i + 1].Width)
           hInt == IntOf(overlays[i + 1].Height)
           r == createWhitePNG(wInt, hInt)
       IN /\ pngCalls' = Append(pngCalls, [ov |-> i, w |-> wInt, h |-> hInt, ok |-> r.ok])
          /\ IF r.ok
             THEN /\ whitePNGData' = r.uri
                  /\ pc' = "save"
                  /\ UNCHANGED <<errs, logOut, exitCode>>
             ELSE /\ Err("raster encode")
                  /\ Fatalf("Failed to create white PNG", NoIdx)
                  /\ UNCHANGED whitePNGData
    /\ UNCHANGED <<jsonPath, pdfPath, data, overlays, originalPDF, currentPDF, iter, i,
                   whitePNGPath, wm, outBuf, tmpFiles, tmpSeq, saveCalls, wmCalls,
                   filesRead, stdout, outFile, outWrites>>

\* lines 131-134 and saveDataURIToTempFile, lines 55-81
SaveTemp ==
    /\ pc = "save"
    /\ saveCalls' = Append(saveCalls, [ov |-> i])
    /\ IF whitePNGData.prefix # PNGPrefix
       THEN /\ Err("save temp file")
            /\ Fatalf("Failed to save white PNG", NoIdx)
            /\ UNCHANGED <<tmpFiles, tmpSeq, whitePNGPath>>
       ELSE \E outcome \in {"saved", "create failed", "write failed"} :
            LET f == [name |-> tmpSeq + 1, ov |-> i, W |-> whitePNGData.W,
                      H |-> whitePNGData.H, pix |-> whitePNGData.pix,
                      complete |-> (outcome = "saved")]
            IN IF outcome = "create failed"
               THEN /\ Err("save temp file")
                    /\ Fatalf("Failed to save white PNG", NoIdx)
                    /\ UNCHANGED <<tmpFiles, tmpSeq, whitePNGPath>>
               ELSE /\ tmpSeq' = tmpSeq + 1
                    /\ tmpFiles' = TempDirAfter(tmpFiles, f)
                    /\ IF outcome = "saved"
                       THEN /\ whitePNGPath' = f.name
                            /\ pc' = "rectParse"
                            /\ UNCHANGED <<errs, logOut, exitCode>>
                       ELSE /\ Err("save temp file")
                            /\ Fatalf("Failed to save white PNG", NoIdx)
                            /\ UNCHANGED whitePNGPath
    /\ UNCHANGED <<jsonPath, pdfPath, data, overlays, originalPDF, currentPDF, iter, i,
                   whitePNGData, wm, outBuf, pngCalls, wmCalls, filesRead, stdout, outFile,
                   outWrites>>

\* lines 140-144
ParseRect ==
    /\ pc = "rectParse"
    /\ \/ /\ wm' = [kind |-> "rect", ov |-> i, file |-> whitePNGPath]
          /\ pc' = "rectApply"
          /\ UNCHANGED <<errs, logOut, exitCode>>
       \/ /\ Err("rect parse")
          /\ Fatalf("Failed to parse image watermark details for overlay", i)
          /\ UNCHANGED wm
    /\ UNCHANGED <<jsonPath, pdfPath, data, overlays, originalPDF, currentPDF, iter, i,
                   whitePNGData, whitePNGPath, outBuf, tmpFiles, tmpSeq, pngCalls,
                   saveCalls, wmCalls, filesRead, stdout, outFile, outWrites>>

\* lines 147-152
ApplyRect ==
    /\ pc = "rectApply"
    /\ \/ /\ outBuf' = AddWatermarks(currentPDF, wm)
          /\ wmCalls' = Append(wmCalls, [kind |-> wm.kind, ov |-> i, in |-> currentPDF,
                                         out |-> outBuf', ok |-> TRUE])
          /\ pc' = "rectRead"
          /\ UNCHANGED <<errs, logOut, exitCode>>
       \/ /\ wmCalls' = Append(wmCalls, [kind |-> wm.kind, ov |-> i, in |-> currentPDF,
                                         out |-> Nil, ok |-> FALSE])
          /\ Err("rect apply")
          /\ Fatalf("Failed adding white rectangle for overlay", i)
          /\ UNCHANGED outBuf
    /\ UNCHANGED <<jsonPath, pdfPath, data, overlays, originalPDF, currentPDF, iter, i,
                   whitePNGData, whitePNGPath, wm, tmpFiles, tmpSeq, pngCalls, saveCalls,
                   filesRead, stdout, outFile, outWrites>>

\* lines 154-158
ReadRect ==
    /\ pc = "rectRead"
    /\ \/ /\ currentPDF' = Updated(currentPDF, outBuf)
          /\ pc' = "textParse"
          /\ UNCHANGED <<errs, logOut, exitCode>>
       \/ /\ Err("rect read")
          /\ Fatalf("io.ReadAll (rectangle pass) failed", NoIdx)
          /\ UNCHANGED currentPDF
    /\ UNCHANGED <<jsonPath, pdfPath, data, overlays, originalPDF, iter, i, whitePNGData,
                   whitePNGPath, wm, outBuf, tmpFiles, tmpSeq, pngCalls, saveCalls,
                   wmCalls, filesRead, stdout, outFile, outWrites>>

\* lines 164-169
ParseText ==
    /\ pc = "textParse"
    /\ \/ /\ wm' = [kind |-> "text", ov |-> i, file |-> 0]
          /\ pc' = "textApply"
          /\ UNCHANGED <<errs, logOut, exitCode>>
       \/ /\ Err("text parse")
          /\ Fatalf("Error creating text watermark for overlay", i)
          /\ UNCHANGED wm
    /\ UNCHANGED <<jsonPath, pdfPath, data, overlays, originalPDF, currentPDF, iter, i,
                   whitePNGData, whitePNGPath, outBuf, tmpFiles, tmpSeq, pngCalls,
                   saveCalls, wmCalls, filesRead, stdout, outFile, outWrites>>

\* lines 172-177
ApplyText ==
    /\ pc = "textApply"
    /\ \/ /\ outBuf' = AddWatermarks(currentPDF, wm)
          /\ wmCalls' = Append(wmCalls, [kind |-> wm.kind, ov |-> i, in |-> currentPDF,
                                         out |-> outBuf', ok |-> TRUE])
          /\ pc' = "textRead"
          /\ UNCHANGED <<errs, logOut, exitCode>>
       \/ /\ wmCalls' = Append(wmCalls, [kind |-> wm.kind, ov |-> i, in |-> currentPDF,
                                         out |-> Nil, ok |-> FALSE])
          /\ Err("text apply")
          /\ Fatalf("Failed adding text for overlay", i)
          /\ UNCHANGED outBuf
    /\ UNCHANGED <<jsonPath, pdfPath, data, overlays, originalPDF, currentPDF, iter, i,
                   whitePNGData, whitePNGPath, wm, tmpFiles, tmpSeq, pngCalls, saveCalls,
                   filesRead, stdout, outFile, outWrites>>

\* lines 179-184
ReadText ==
    /\ pc = "textRead"
    /\ \/ /\ currentPDF' = Updated(currentPDF, outBuf)
          /\ pc' = "loop"
          /\ UNCHANGED <<errs, logOut, exitCode>>
       \/ /\ Err("text read")
          /\ Fatalf("io.ReadAll (text pass) failed", NoIdx)
          /\ UNCHANGED currentPDF
    /\ UNCHANGED <<jsonPath, pdfPath, data, overlays, originalPDF, iter, i, whitePNGData,
                   whitePNGPath, wm, outBuf, tmpFiles, tmpSeq, pngCalls, saveCalls,
                   wmCalls, filesRead, stdout, outFile, outWrites>>

\* lines 187-191: os.WriteFile creates or truncates the output path and writes
\* the buffer; when it fails the path is untouched or holds a partial file.
WriteOut ==
    /\ pc = "write"
    /\ outWrites' = outWrites + 1
    /\ \/ /\ outFile' = currentPDF
          /\ stdout' = Append(stdout, "Done! Overlays applied.")
          /\ exitCode' = 0
          /\ pc' = "done"
          /\ UNCHANGED <<errs, logOut>>
       \/ /\ outFile' \in {outFile, Partial}
          /\ Err("write output")
          /\ Fatalf("Could not write output PDF", NoIdx)
          /\ UNCHANGED stdout
    /\ UNCHANGED <<jsonPath, pdfPath, data, overlays, originalPDF, currentPDF, iter, i,
                   whitePNGData, whitePNGPath, wm, outBuf, tmpFiles, tmpSeq, pngCalls,
                   saveCalls, wmCalls, filesRead>>

Next ==
    \/ CheckFlags
    \/ ReadJSON
    \/ DecodeJSON
    \/ ReadPDF
    \/ LoopHead
    \/ CreatePNG
    \/ SaveTemp
    \/ ParseRect
    \/ ApplyRect
    \/ ReadRect
    \/ ParseText
    \/ ApplyText
    \/ ReadText
    \/ WriteOut

Spec == Init /\ [][Next]_vars

\* ---------------------------------------------------------------- properties
Finished == pc \in {"exited", "done"}
Indices == 0..(Len(overlays) - 1)
WantsRect(k) == overlays[k + 1].Width > 0 /\ overlays[k + 1].Height > 0
CallsFor(k) == SelectSeq(wmCalls, LAMBDA c : c.ov = k)
Kinds(calls) == [n \in 1..Len(calls) |-> calls[n].kind]
AllOk(calls) == \A n \in 1..Len(calls) : calls[n].ok
IsPrefix(s, t) == Len(s) <= Len(t) /\ \A n \in 1..Len(s) : s[n] = t[n]
FirstErr == errs[1].step
WriteFailed == errs # <<>> /\ FirstErr = "write output"
\* the iteration of overlay k has run to its end
Completed(k) ==
    \/ iter > k + 1
    \/ iter = k + 1 /\ (pc \in {"loop", "write", "done"} \/ WriteFailed)
ExpectedKinds(k) == IF WantsRect(k) THEN <<"rect", "text">> ELSE <<"text">>
AllOverlaysApplied ==
    \A k \in Indices : Kinds(CallsFor(k)) = ExpectedKinds(k) /\ AllOk(CallsFor(k))
\* the failure points before the write of the output
InputSteps == {"read json", "decode json", "read pdf"}
RectSteps == {"raster encode", "save temp file", "rect parse", "rect apply", "rect read"}
TextSteps == {"text parse", "text apply", "text read"}
OverlaySteps == RectSteps \cup TextSteps

\* C1: the output path is written only after every step of every overlay has
\* succeeded; a run that fails at reading or decoding an input or at any step of
\* an overlay has made no write to the output path and leaves no output file; a
\* run that ends successfully has made exactly one write, after the last
\* overlay, of the final buffer.
C1_AllOrNothing ==
    /\ outWrites > 0 =>
          /\ \A n \in 1..Len(errs) : errs[n].step = "write output"
          /\ iter = Len(overlays)
          /\ AllOverlaysApplied
    /\ (Finished /\ errs # <<>> /\ FirstErr \in InputSteps \cup OverlaySteps) =>
          /\ outWrites = 0
          /\ outFile = NoFile
          /\ exitCode = 1
    /\ pc = "done" =>
          /\ outWrites = 1
          /\ errs = <<>>
          /\ exitCode = 0
          /\ outFile = currentPDF
          /\ Len(wmCalls) > 0 => outFile = wmCalls[Len(wmCalls)].out
    /\ (Finished /\ errs = <<>> /\ jsonPath # "" /\ pdfPath # "") => outWrites = 1

\* a run that fails in the text pass of its second overlay, after the first
\* overlay was applied in full
C1_Witness ==
    /\ pc = "exited"
    /\ errs # <<>> /\ FirstErr = "text apply" /\ errs[1].ov = 1
    /\ Len(CallsFor(0)) = 2
    /\ outWrites = 0

\* C2: with an empty overlay list no watermark call is made and no raster is
\* generated or saved, and the bytes written to the output path are the bytes
\* read from the input PDF.
C2_EmptyListIdentity ==
    overlays = <<>> =>
        /\ wmCalls = <<>>
        /\ pngCalls = <<>>
        /\ saveCalls = <<>>
        /\ tmpFiles = {}
        /\ pc = "done" => outFile = originalPDF /\ originalPDF.base \in PDFs

C2_Witness == pc = "done" /\ data.valid /\ data.doc = <<>> /\ outFile.base = "pdfB"

\* C3: an overlay whose width or height is <= 0 (a missing field counts as 0)
\* never gets a rectangle pass: no raster is generated for it, no transient file
\* is created for it, no rectangle watermark call is made for it; and once its
\* iteration has run to its end exactly one watermark call, the text pass, was
\* made for it.
C3_TextOnly ==
    \A k \in Indices : ~WantsRect(k) =>
        /\ \A n \in 1..Len(pngCalls) : pngCalls[n].ov # k
        /\ \A n \in 1..Len(saveCalls) : saveCalls[n].ov # k
        /\ \A f \in tmpFiles : f.ov # k
        /\ IsPrefix(Kinds(CallsFor(k)), <<"text">>)
        /\ Completed(k) => Kinds(CallsFor(k)) = <<"text">> /\ AllOk(CallsFor(k))

\* a finished run over a rectangle overlay followed by an overlay whose width
\* is missing from the JSON and whose height is positive
C3_Witness ==
    /\ pc = "done"
    /\ Len(overlays) = 2
    /\ WantsRect(0) /\ tmpFiles # {}
    /\ DOMAIN data.doc[2] = {"height"} /\ overlays[2].Width = 0 /\ overlays[2].Height > 0
    /\ Len(CallsFor(1)) = 1

\* C4: for an overlay with width > 0 and height > 0 the watermark calls are
\* made in the order rectangle, text; once its iteration has run to its end
\* without error exactly those two calls were made; and whenever its rectangle
\* call has been made, its raster had been generated and saved completely to
\* the transient file the rectangle watermark names.
C4_RectThenText ==
    \A k \in Indices : WantsRect(k) =>
        /\ IsPrefix(Kinds(CallsFor(k)), <<"rect", "text">>)
        /\ Completed(k) => Kinds(CallsFor(k)) = <<"rect", "text">> /\ AllOk(CallsFor(k))
        /\ \A n \in 1..Len(wmCalls) : (wmCalls[n].ov = k /\ wmCalls[n].ok) =>
              /\ \E m \in 1..Len(pngCalls) : pngCalls[m].ov = k /\ pngCalls[m].ok
              /\ \E f \in tmpFiles :
                    /\ f.ov = k /\ f.complete
                    /\ \E l \in 1..Len(wmCalls[n].out.layers) :
                          wmCalls[n].out.layers[l] = [kind |-> "rect", ov |-> k, file |-> f.name]

C4_Witness ==
    /\ pc = "done"
    /\ \E k \in Indices : WantsRect(k) /\ Kinds(CallsFor(k)) = <<"rect", "text">>

\* the layers overlay k adds to a document
HasLayersOf(buf, k) ==
    /\ \E l \in 1..Len(buf.layers) : buf.layers[l].kind = "text" /\ buf.layers[l].ov = k
    /\ WantsRect(k) => \E l \in 1..Len(buf.layers) : buf.layers[l].kind = "rect" /\ buf.layers[l].ov = k

\* C5: the watermark calls are made in array order (every call for overlay a
\* precedes every call for overlay b when a < b), and the input buffer of a
\* call for overlay b already holds every layer of every overlay a < b.
C5_StackingOrder ==
    /\ \A m, n \in 1..Len(wmCalls) : m < n => wmCalls[m].ov <= wmCalls[n].ov
    /\ \A n \in 1..Len(wmCalls) : \A k \in Indices :
          k < wmCalls[n].ov => HasLayersOf(wmCalls[n].in, k)

C5_Witness ==
    /\ pc = "done"
    /\ Len(overlays) = 2
    /\ Len(CallsFor(0)) = 2 /\ Len(CallsFor(1)) = 2

\* C6: the first watermark call reads the raw bytes of the source PDF; every
\* later call reads the output of the call before it, which succeeded; and the
\* bytes written to the output path are the output of the last call.
C6_Chaining ==
    /\ wmCalls # <<>> =>
          /\ wmCalls[1].in = originalPDF
          /\ originalPDF.base \in PDFs /\ originalPDF.layers = <<>>
    /\ \A n \in 2..Len(wmCalls) : wmCalls[n - 1].ok /\ wmCalls[n].in = wmCalls[n - 1].out
    /\ \A n \in 1..Len(wmCalls) : wmCalls[n].ok => Len(wmCalls[n].out.layers) = n
    /\ (pc = "done" /\ wmCalls # <<>>) => outFile = wmCalls[Len(wmCalls)].out

C6_Witness == pc = "done" /\ Len(wmCalls) = 3 /\ Len(outFile.layers) = 3

\* C7: with the -json or the -pdf flag missing, the process prints the usage
\* line to standard output and exits with status 1, and nothing else happens:
\* no file is read, no raster is generated or saved, no watermark call is made,
\* nothing is logged and the output path is not written.
C7_Usage ==
    (jsonPath = "" \/ pdfPath = "") =>
        /\ filesRead = {} /\ pngCalls = <<>> /\ saveCalls = <<>> /\ tmpFiles = {}
        /\ wmCalls = <<>> /\ outWrites = 0 /\ outFile = NoFile /\ logOut = <<>>
        /\ pc \in {"flags", "exited"}
        /\ pc = "exited" => exitCode = 1 /\ stdout = <<"usage">>

C7_Witness == pc = "exited" /\ jsonPath # "" /\ pdfPath = "" /\ stdout = <<"usage">>

LastLog == logOut[Len(logOut)]
\* the steps whose fatal message is formatted with the overlay index
IndexedSteps == {"rect parse", "rect apply", "text parse", "text apply"}

\* C8 as stated: every error of an overlay step is fatal and its message names
\* the index of the overlay.
C8_Original ==
    (errs # <<>> /\ FirstErr \in OverlaySteps) =>
        /\ pc = "exited" /\ exitCode = 1
        /\ LastLog.level = "fatal" /\ LastLog.idx = errs[1].ov

\* C8 amended: every error of an overlay step is fatal (the process exits with
\* status 1 right after logging it, and nothing more is done).  The fatal
\* message names the overlay index for the parameter-parse and application
\* errors of both passes; the messages of the raster-encode, temp-file-save and
\* buffer-read errors name no index, and the overlay is identified by the
\* progress line "Processing overlay i", which is the last progress line logged
\* before the fatal message.
C8_FatalWithContext ==
    (errs # <<>> /\ FirstErr \in OverlaySteps) =>
        /\ pc = "exited" /\ exitCode = 1 /\ Len(errs) = 1 /\ outWrites = 0
        /\ LastLog.level = "fatal"
        /\ LastLog.idx = (IF FirstErr \in IndexedSteps THEN errs[1].ov ELSE NoIdx)
        /\ errs[1].ov = i
        /\ \E n \in 1..(Len(logOut) - 1) :
              /\ logOut[n].level = "info" /\ logOut[n].idx = errs[1].ov
              /\ \A m \in (n + 1)..(Len(logOut) - 1) : logOut[m].level # "info"

C8_Witness ==
    /\ pc = "exited" /\ errs # <<>>
    /\ FirstErr = "save temp file" /\ errs[1].ov = 1
    /\ LastLog.idx = NoIdx

\* C9: the pixel dimensions passed to the raster generator equal the overlay's
\* width and height (also when these are not integers), and every pixel of a
\* generated raster is opaque white.
C9_ExactSize ==
    /\ \A n \in 1..Len(pngCalls) :
          /\ 2 * pngCalls[n].w = overlays[pngCalls[n].ov + 1].Width
          /\ 2 * pngCalls[n].h = overlays[pngCalls[n].ov + 1].Height
    /\ \A f \in tmpFiles : \A p \in DOMAIN f.pix : f.pix[p] = "white"

NoSaveError == \A n \in 1..Len(errs) : errs[n].step # "save temp file"

\* C10: transient raster files are never removed; at most one exists per
\* overlay, and only for an overlay with a rectangle pass; and the number of
\* files left behind equals the number of rectangle passes that reached the
\* persist step, at every moment and so at exit, after success or after a
\* failure at a later step.  (When the persist step itself fails, its file may
\* or may not have been created.)
C10_TempFilesLeak ==
    /\ [][tmpFiles \subseteq tmpFiles']_vars
    /\ [](/\ \A f, g \in tmpFiles : f.ov = g.ov => f = g
          /\ \A f \in tmpFiles : f.ov \in Indices /\ WantsRect(f.ov)
          /\ Cardinality(tmpFiles) = tmpSeq
          /\ NoSaveError => Cardinality(tmpFiles) = Len(saveCalls)
          /\ ~NoSaveError => Cardinality(tmpFiles) \in {Len(saveCalls) - 1, Len(saveCalls)})

C10_Witness ==
    /\ pc = "exited" /\ errs # <<>> /\ FirstErr = "text apply"
    /\ Cardinality(tmpFiles) = 2 /\ Len(saveCalls) = 2
====
